---- MODULE Spec2Model ----
(***************************************************************************)
(* Model of src/lib/rpc-utils.ts and src/components/transaction-viewer.tsx: *)
(* the RPC liveness prober findWorkingRpc, the chain-metadata / RPC-list   *)
(* acquisition functions fetchChainData and fetchRpcData, the hook         *)
(* useRpcData, and the TransactionViewer component with fetchTransaction.  *)
(***************************************************************************)
EXTENDS Integers, Sequences, FiniteSets, TLC

VARIABLES
    \* ---- findWorkingRpc ----
    rpcs,        \* the candidate list handed to findWorkingRpc
    pc,          \* position of the findWorkingRpc call
    launched,    \* number of rpcs.map callbacks already run up to their await
    probe,       \* per candidate: state of the promise of its async callback
    outcome,     \* per candidate: how its fetch ended
    timer,       \* per candidate: state of its setTimeout timer
    firstSettled,\* index of the probe that settled first (0: none yet)
    warnedProbe, \* per candidate: console.warn(`RPC ${rpc} failed`) was called
    warnedAll,   \* console.warn('All RPCs failed, using fallback') was called
    result,      \* value returned by findWorkingRpc
    \* ---- fetchChainData / fetchRpcData ----
    chainInput,  \* what the chainIds.js request is answered with (entries, shape)
    chainResp,   \* the response of the chainIds.js request
    dpc,         \* position of the fetchRpcData call
    chainData,   \* value fetchChainData resolved to
    rpcInput,    \* what the extraRpcs.js request is answered with (records)
    rpcResp,     \* the response of the extraRpcs.js request
    rpcData,     \* value fetchRpcData resolved to
    logs,        \* console.error messages logged so far
    \* ---- useRpcData ----
    networksData,    \* state networksData: null or the NetworksMap
    networkList,     \* state networkList
    loadingNetworks, \* state loading of the hook
    networkError,    \* state error of the hook
    \* ---- TransactionViewer ----
    network,     \* state network: the selected network key
    txHash,      \* state txHash: content of the hash input
    transaction, \* state transaction: the displayed transaction or null
    loading,     \* state loading: a lookup is in flight
    error,       \* state error: the displayed message or null
    tpc          \* position of the fetchTransaction call

probeVars == <<rpcs, pc, launched, probe, outcome, timer, firstSettled,
               warnedProbe, warnedAll, result>>

dataVars == <<chainInput, chainResp, dpc, chainData, rpcInput, rpcResp, rpcData,
              logs>>

hookVars == <<networksData, networkList, loadingNetworks, networkError>>

viewerVars == <<network, txHash, transaction, loading, error, tpc>>

viewVars == <<hookVars, viewerVars>>

vars == <<probeVars, dataVars, viewVars>>

(***************************************************************************)
(* Bounds                                                                  *)
(***************************************************************************)
MaxRpcs == 3

\* candidate URLs: "u1", "u2", "u3"
Urls == {<<"u", "1">>, <<"u", "2">>, <<"u", "3">>}

NoValue == "none"

\* findWorkingRpc has returned nothing (yet)
NoResult == <<>>

SeqsUpTo(S, n) == UNION {[1..k -> S] : k \in 0..n}

Min(S) == CHOOSE x \in S : \A y \in S : x <= y

(***************************************************************************)
(* String literals of the source and of the remote documents               *)
(***************************************************************************)
\* "ethereum"
K_ethereum ==
    <<"e", "t", "h", "e", "r", "e", "u", "m">>

\* "arbitrum"
K_arbitrum ==
    <<"a", "r", "b", "i", "t", "r", "u", "m">>

\* "optimism"
K_optimism ==
    <<"o", "p", "t", "i", "m", "i", "s", "m">>

\* "polygon"
K_polygon ==
    <<"p", "o", "l", "y", "g", "o", "n">>

\* "base"
K_base ==
    <<"b", "a", "s", "e">>

\* "avalanche"
K_avalanche ==
    <<"a", "v", "a", "l", "a", "n", "c", "h", "e">>

\* "binance"
K_binance ==
    <<"b", "i", "n", "a", "n", "c", "e">>

\* "fantom"
K_fantom ==
    <<"f", "a", "n", "t", "o", "m">>

\* "gnosis"
K_gnosis ==
    <<"g", "n", "o", "s", "i", "s">>

\* "zksync"
K_zksync ==
    <<"z", "k", "s", "y", "n", "c">>

\* "https://etherscan.io/tx/"
X_ethereum ==
    <<"h", "t", "t", "p", "s", ":", "/", "/", "e", "t", "h", "e", "r", "s",
      "c", "a", "n", ".", "i", "o", "/", "t", "x", "/">>

\* "https://bscscan.com/tx/"
X_binance ==
    <<"h", "t", "t", "p", "s", ":", "/", "/", "b", "s", "c", "s", "c", "a",
      "n", ".", "c", "o", "m", "/", "t", "x", "/">>

\* "https://polygonscan.com/tx/"
X_polygon ==
    <<"h", "t", "t", "p", "s", ":", "/", "/", "p", "o", "l", "y", "g", "o",
      "n", "s", "c", "a", "n", ".", "c", "o", "m", "/", "t", "x", "/">>

\* "https://arbiscan.io/tx/"
X_arbitrum ==
    <<"h", "t", "t", "p", "s", ":", "/", "/", "a", "r", "b", "i", "s", "c",
      "a", "n", ".", "i", "o", "/", "t", "x", "/">>

\* "https://optimistic.etherscan.io/tx/"
X_optimism ==
    <<"h", "t", "t", "p", "s", ":", "/", "/", "o", "p", "t", "i", "m", "i",
      "s", "t", "i", "c", ".", "e", "t", "h", "e", "r", "s", "c", "a", "n",
      ".", "i", "o", "/", "t", "x", "/">>

\* "https://basescan.org/tx/"
X_base ==
    <<"h", "t", "t", "p", "s", ":", "/", "/", "b", "a", "s", "e", "s", "c",
      "a", "n", ".", "o", "r", "g", "/", "t", "x", "/">>

\* "https://snowtrace.io/tx/"
X_avalanche ==
    <<"h", "t", "t", "p", "s", ":", "/", "/", "s", "n", "o", "w", "t", "r",
      "a", "c", "e", ".", "i", "o", "/", "t", "x", "/">>

\* "https://ftmscan.com/tx/"
X_fantom ==
    <<"h", "t", "t", "p", "s", ":", "/", "/", "f", "t", "m", "s", "c", "a",
      "n", ".", "c", "o", "m", "/", "t", "x", "/">>

\* "https://gnosisscan.io/tx/"
X_gnosis ==
    <<"h", "t", "t", "p", "s", ":", "/", "/", "g", "n", "o", "s", "i", "s",
      "s", "c", "a", "n", ".", "i", "o", "/", "t", "x", "/">>

\* "https://explorer.zksync.io/tx/"
X_zksync ==
    <<"h", "t", "t", "p", "s", ":", "/", "/", "e", "x", "p", "l", "o", "r",
      "e", "r", ".", "z", "k", "s", "y", "n", "c", ".", "i", "o", "/", "t",
      "x", "/">>

\* "https://"
ScanPrefix ==
    <<"h", "t", "t", "p", "s", ":", "/", "/">>

\* "scan.com/tx/"
ScanSuffix ==
    <<"s", "c", "a", "n", ".", "c", "o", "m", "/", "t", "x", "/">>

\* "1"
Id_1 ==
    <<"1">>

\* "10"
Id_10 ==
    <<"1", "0">>

\* "137"
Id_137 ==
    <<"1", "3", "7">>

\* "42161"
Id_42161 ==
    <<"4", "2", "1", "6", "1">>

\* "8453"
Id_8453 ==
    <<"8", "4", "5", "3">>

\* "5"
Id_5 ==
    <<"5">>

\* "11"
Id_11 ==
    <<"1", "1">>

\* "ubiq"
K_ubiq ==
    <<"u", "b", "i", "q">>

\* "export default "
ExportDefault ==
    <<"e", "x", "p", "o", "r", "t", " ", "d", "e", "f", "a", "u", "l", "t",
      " ">>

\* " // note"
LineComment ==
    <<" ", "/", "/", " ", "n", "o", "t", "e">>

\* "404: Not Found"
NotFoundBody ==
    <<"4", "0", "4", ":", " ", "N", "o", "t", " ", "F", "o", "u", "n", "d">>

\* "NaN"
NaN ==
    <<"N", "a", "N">>

\* "rpcs:"
RpcsField ==
    <<"r", "p", "c", "s", ":">>

\* "name:"
NameField ==
    <<"n", "a", "m", "e", ":">>

\* "url:"
UrlField ==
    <<"u", "r", "l", ":">>

\* "http"
Http ==
    <<"h", "t", "t", "p">>

\* "privacy"
Privacy ==
    <<"p", "r", "i", "v", "a", "c", "y">>

\* "Ethereum"
N_Ethereum ==
    <<"E", "t", "h", "e", "r", "e", "u", "m">>

\* "Arbitrum"
N_Arbitrum ==
    <<"A", "r", "b", "i", "t", "r", "u", "m">>

\* "Optimism"
N_Optimism ==
    <<"O", "p", "t", "i", "m", "i", "s", "m">>

\* "Polygon"
N_Polygon ==
    <<"P", "o", "l", "y", "g", "o", "n">>

\* "Base"
N_Base ==
    <<"B", "a", "s", "e">>

\* "https://eth.llamarpc.com"
R_ethereum ==
    <<"h", "t", "t", "p", "s", ":", "/", "/", "e", "t", "h", ".", "l", "l",
      "a", "m", "a", "r", "p", "c", ".", "c", "o", "m">>

\* "https://arb.llamarpc.com"
R_arbitrum ==
    <<"h", "t", "t", "p", "s", ":", "/", "/", "a", "r", "b", ".", "l", "l",
      "a", "m", "a", "r", "p", "c", ".", "c", "o", "m">>

\* "https://optimism.llamarpc.com"
R_optimism ==
    <<"h", "t", "t", "p", "s", ":", "/", "/", "o", "p", "t", "i", "m", "i",
      "s", "m", ".", "l", "l", "a", "m", "a", "r", "p", "c", ".", "c", "o",
      "m">>

\* "https://polygon.llamarpc.com"
R_polygon ==
    <<"h", "t", "t", "p", "s", ":", "/", "/", "p", "o", "l", "y", "g", "o",
      "n", ".", "l", "l", "a", "m", "a", "r", "p", "c", ".", "c", "o", "m">>

\* "https://base.llamarpc.com"
R_base ==
    <<"h", "t", "t", "p", "s", ":", "/", "/", "b", "a", "s", "e", ".", "l",
      "l", "a", "m", "a", "r", "p", "c", ".", "c", "o", "m">>

\* "http://a"
U_a ==
    <<"h", "t", "t", "p", ":", "/", "/", "a">>

\* "http://b"
U_b ==
    <<"h", "t", "t", "p", ":", "/", "/", "b">>

\* "none"
TrackingNone ==
    <<"n", "o", "n", "e">>

\* "Mainnet"
RecordName ==
    <<"M", "a", "i", "n", "n", "e", "t">>

\* "extraRpcs = "
RpcHeader ==
    <<"e", "x", "t", "r", "a", "R", "p", "c", "s", " ", "=", " ">>


\* no findWorkingRpc call is running
ProbeIdle ==
    /\ rpcs = <<>>
    /\ pc = "off"
    /\ launched = 0
    /\ probe = <<>>
    /\ outcome = <<>>
    /\ timer = <<>>
    /\ firstSettled = 0
    /\ warnedProbe = <<>>
    /\ warnedAll = FALSE
    /\ result = NoResult

\* useState<NetworksMap | null>(null): null, or a NetworksMap
NullData == [isNull |-> TRUE, value |-> <<>>]

\* the component as mounted: the useState initial values of useRpcData and
\* of TransactionViewer, no fetchTransaction call running
ViewMounted ==
    /\ networksData = NullData
    /\ networkList = <<>>
    /\ loadingNetworks = TRUE
    /\ networkError = NoValue
    /\ network = K_ethereum
    /\ txHash = ""
    /\ transaction = NoValue
    /\ loading = FALSE
    /\ error = NoValue
    /\ tpc = "idle"

(***************************************************************************)
(* findWorkingRpc                                                          *)
(***************************************************************************)
Idx == 1..Len(rpcs)

\* rpcs.length === 0
NoRpcsProvided_Off == Len(rpcs) <= 1
NoRpcsProvided == Len(rpcs) = 0

\* Promise.allSettled: resolves once every input promise has settled
AllSettled_Race == \E i \in Idx : probe[i] = "fulfilled"
AllSettled == \A i \in Idx : probe[i] \in {"fulfilled", "rejected"}

\* for (const result of testResults) if (result.status === 'fulfilled') ...
Fulfilled == {i \in Idx : probe[i] = "fulfilled"}

\* the value the function returns once testResults is available
SelectResult_ByLatency ==
    IF Fulfilled # {} THEN rpcs[firstSettled] ELSE rpcs[1]
SelectResult_LastFallback ==
    IF Fulfilled # {} THEN rpcs[Min(Fulfilled)] ELSE rpcs[Len(rpcs)]
SelectResult ==
    IF Fulfilled # {} THEN rpcs[Min(Fulfilled)] ELSE rpcs[1]

\* no acquisition is running
DataIdle ==
    /\ chainInput = [kind |-> "neterr", entries |-> <<>>, shape |-> "json"]
    /\ chainResp = [kind |-> "neterr", text |-> <<>>]
    /\ dpc = "off"
    /\ chainData = [chainIds |-> <<>>, explorers |-> <<>>, networkList |-> <<>>]
    /\ rpcInput = [kind |-> "neterr", records |-> <<>>]
    /\ rpcResp = [kind |-> "neterr", text |-> <<>>]
    /\ rpcData = [networks |-> <<>>, networkList |-> <<>>]
    /\ logs = {}

InitProbe ==
    /\ rpcs \in SeqsUpTo(Urls, MaxRpcs)
    /\ pc = "start"
    /\ launched = 0
    /\ probe = [i \in 1..Len(rpcs) |-> "idle"]
    /\ outcome = [i \in 1..Len(rpcs) |-> NoValue]
    /\ timer = [i \in 1..Len(rpcs) |-> "unset"]
    /\ firstSettled = 0
    /\ warnedProbe = [i \in 1..Len(rpcs) |-> FALSE]
    /\ warnedAll = FALSE
    /\ result = NoResult
    /\ DataIdle
    /\ ViewMounted

\* if (rpcs.length === 0) throw new Error('No RPCs provided')
Call ==
    /\ pc = "start"
    /\ pc' = IF NoRpcsProvided THEN "raised" ELSE "mapping"
    /\ UNCHANGED <<rpcs, launched, probe, outcome, timer, firstSettled,
                   warnedProbe, warnedAll, result>>
    /\ UNCHANGED <<dataVars, viewVars>>

\* rpcs.map(async (rpc) => ...): the callback of the next candidate runs
\* synchronously up to its await: controller, setTimeout, fetch
Launch ==
    /\ pc = "mapping"
    /\ launched < Len(rpcs)
    /\ launched' = launched + 1
    /\ probe' = [probe EXCEPT ![launched + 1] = "pending"]
    /\ timer' = [timer EXCEPT ![launched + 1] = "armed"]
    /\ UNCHANGED <<rpcs, pc, outcome, firstSettled, warnedProbe, warnedAll, result>>
    /\ UNCHANGED <<dataVars, viewVars>>

\* await Promise.allSettled(...): the call suspends, the event loop runs
Await ==
    /\ pc = "mapping"
    /\ launched = Len(rpcs)
    /\ pc' = "awaiting"
    /\ UNCHANGED <<rpcs, launched, probe, outcome, timer, firstSettled,
                   warnedProbe, warnedAll, result>>
    /\ UNCHANGED <<dataVars, viewVars>>

\* the event loop runs tasks only while no synchronous code is running
EventLoopIdle == pc \in {"awaiting", "returned"}

NoteSettled(i) == firstSettled' = IF firstSettled = 0 THEN i ELSE firstSettled

\* fetch resolved with a 2xx response: clearTimeout, return rpc
FetchOk(i) ==
    /\ EventLoopIdle
    /\ probe[i] = "pending"
    /\ timer' = [timer EXCEPT ![i] = "cleared"]
    /\ outcome' = [outcome EXCEPT ![i] = "ok"]
    /\ probe' = [probe EXCEPT ![i] = "fulfilled"]
    /\ NoteSettled(i)
    /\ UNCHANGED <<rpcs, pc, launched, warnedProbe, warnedAll, result>>
    /\ UNCHANGED <<dataVars, viewVars>>

\* fetch resolved with a non-2xx response: clearTimeout, throw, catch, rethrow
FetchNon2xx(i) ==
    /\ EventLoopIdle
    /\ probe[i] = "pending"
    /\ timer' = [timer EXCEPT ![i] = "cleared"]
    /\ outcome' = [outcome EXCEPT ![i] = "non2xx"]
    /\ warnedProbe' = [warnedProbe EXCEPT ![i] = TRUE]
    /\ probe' = [probe EXCEPT ![i] = "rejected"]
    /\ NoteSettled(i)
    /\ UNCHANGED <<rpcs, pc, launched, warnedAll, result>>
    /\ UNCHANGED <<dataVars, viewVars>>

\* fetch rejected with a network error: control jumps to the catch block,
\* clearTimeout on the line after the await is skipped
FetchNetworkError(i) ==
    /\ EventLoopIdle
    /\ probe[i] = "pending"
    /\ outcome' = [outcome EXCEPT ![i] = "neterr"]
    /\ warnedProbe' = [warnedProbe EXCEPT ![i] = TRUE]
    /\ probe' = [probe EXCEPT ![i] = "rejected"]
    /\ NoteSettled(i)
    /\ UNCHANGED <<rpcs, pc, launched, timer, warnedAll, result>>
    /\ UNCHANGED <<dataVars, viewVars>>

\* the 3000 ms timer fires: controller.abort(); a fetch still pending rejects
\* with an AbortError, which the catch block turns into the probe's failure
TimerFire(i) ==
    /\ EventLoopIdle
    /\ timer[i] = "armed"
    /\ timer' = [timer EXCEPT ![i] = "fired"]
    /\ IF probe[i] = "pending"
       THEN /\ outcome' = [outcome EXCEPT ![i] = "timeout"]
            /\ warnedProbe' = [warnedProbe EXCEPT ![i] = TRUE]
            /\ probe' = [probe EXCEPT ![i] = "rejected"]
            /\ NoteSettled(i)
       ELSE UNCHANGED <<outcome, warnedProbe, probe, firstSettled>>
    /\ UNCHANGED <<rpcs, pc, launched, warnedAll, result>>
    /\ UNCHANGED <<dataVars, viewVars>>

\* allSettled resolved: the loop over testResults, else the fallback
Return ==
    /\ pc = "awaiting"
    /\ AllSettled
    /\ result' = SelectResult
    /\ warnedAll' = (Fulfilled = {})
    /\ pc' = "returned"
    /\ UNCHANGED <<rpcs, launched, probe, outcome, timer, firstSettled, warnedProbe>>
    /\ UNCHANGED <<dataVars, viewVars>>

NextProbe ==
    \/ Call
    \/ Launch
    \/ Await
    \/ \E i \in Idx : FetchOk(i)
    \/ \E i \in Idx : FetchNon2xx(i)
    \/ \E i \in Idx : FetchNetworkError(i)
    \/ \E i \in Idx : TimerFire(i)
    \/ Return

SpecProbe == InitProbe /\ [][NextProbe]_vars

(***************************************************************************)
(* Properties of findWorkingRpc                                            *)
(***************************************************************************)
Failures == {"neterr", "non2xx", "timeout"}

Succeeded == {i \in Idx : outcome[i] = "ok"}

AllFailed == Len(rpcs) > 0 /\ \A i \in Idx : outcome[i] \in Failures

\* C1: when at least one probe succeeded, findWorkingRpc returns the
\* successful candidate with the smallest input-list index, whatever the order
\* in which the probes completed.
C1_FirstSuccessfulByInputOrder ==
    (pc = "returned" /\ Succeeded # {}) =>
        /\ result = rpcs[Min(Succeeded)]
        /\ ~warnedAll

\* C1 witness: two candidates with different URLs succeeded, the later-listed
\* one completed first, and the call has returned.
C1_Witness ==
    /\ pc = "returned"
    /\ \E i, j \in Idx :
         /\ i < j
         /\ outcome[i] = "ok" /\ outcome[j] = "ok"
         /\ rpcs[i] # rpcs[j]
         /\ firstSettled = j
         /\ \A k \in 1..(i - 1) : outcome[k] \in Failures

\* C2: with a non-empty list whose probes all failed, the call does not raise;
\* once every probe has failed it can return, and it returns the first
\* candidate after logging the all-failed warning.
C2_AllFailedReturnsFirst ==
    AllFailed =>
        /\ pc # "raised"
        /\ pc = "awaiting" => ENABLED Return
        /\ pc = "returned" => (result = rpcs[1] /\ warnedAll)

\* C2 witness: three candidates failed in the three different ways, the first
\* and last differ, and the call has returned.
C2_Witness ==
    /\ pc = "returned"
    /\ Len(rpcs) = 3
    /\ rpcs[1] # rpcs[3]
    /\ outcome = <<"timeout", "neterr", "non2xx">>

\* C3: the call raises if and only if the list is empty, it raises before any
\* probe is launched, and a call on a non-empty list never gets stuck before
\* it returns, and what it returns is one of the candidates.
C3_RaisesIffEmpty ==
    /\ pc = "raised" => (Len(rpcs) = 0 /\ launched = 0)
    /\ (Len(rpcs) = 0 /\ pc # "start") => pc = "raised"
    /\ (Len(rpcs) > 0 /\ pc # "returned") => ENABLED NextProbe
    /\ (Len(rpcs) > 0 /\ pc = "awaiting" /\ AllSettled) => ENABLED Return
    /\ pc = "returned" => \E i \in Idx : result = rpcs[i]

\* C3 witness: a call on a one-element list has returned after its only probe
\* failed.
C3_Witness ==
    /\ pc = "returned"
    /\ Len(rpcs) = 1
    /\ outcome[1] \in Failures

\* C4: every candidate's probe is launched before the call starts awaiting and
\* before any probe result is processed, and the call never returns while a
\* probe is still pending.
C4_AllLaunchedAllSettled ==
    /\ pc \in {"awaiting", "returned"} =>
          (launched = Len(rpcs) /\ \A i \in Idx : probe[i] # "idle")
    /\ (\E i \in Idx : outcome[i] # NoValue) => launched = Len(rpcs)
    /\ pc = "returned" => \A i \in Idx : outcome[i] # NoValue

\* C4 witness: the first candidate succeeded first, a later candidate settled
\* only afterwards (by timeout), and the call returned after that.
C4_Witness ==
    /\ pc = "returned"
    /\ Len(rpcs) >= 2
    /\ firstSettled = 1
    /\ outcome[1] = "ok"
    /\ \E j \in Idx : j > 1 /\ outcome[j] = "timeout"

\* C5: no probe that has settled (success, non-2xx, network error, timeout)
\* leaves its 3-second timer armed.
C5_TimerTornDownOnEveryExit ==
    \A i \in Idx : outcome[i] # NoValue => timer[i] # "armed"

(***************************************************************************)
(* Text: a JavaScript string is modelled as the sequence of its characters *)
(***************************************************************************)
Digits == {"0", "1", "2", "3", "4", "5", "6", "7", "8", "9"}

LowerCase == {"a", "b", "c", "d", "e", "f", "g", "h", "i", "j", "k", "l", "m",
              "n", "o", "p", "q", "r", "s", "t", "u", "v", "w", "x", "y", "z"}

UpperCase == {"A", "B", "C", "D", "E", "F", "G", "H", "I", "J", "K", "L", "M",
              "N", "O", "P", "Q", "R", "S", "T", "U", "V", "W", "X", "Y", "Z"}

\* [a-zA-Z0-9_]
WordChars == Digits \cup LowerCase \cup UpperCase \cup {"_"}

\* \s, and the line terminators that . does not match
Whitespace == {" ", "\n", "\t"}

LineTerminators == {"\n"}

Quotes == {"'", "\""}

Max(S) == CHOOSE x \in S : \A y \in S : x >= y

Range(s) == {s[i] : i \in 1..Len(s)}

\* String.prototype.indexOf(ch): 0-based, -1 when absent
IndexOf(s, ch) ==
    IF \E i \in 1..Len(s) : s[i] = ch
    THEN Min({i \in 1..Len(s) : s[i] = ch}) - 1
    ELSE -1

\* String.prototype.lastIndexOf(ch): 0-based, -1 when absent
LastIndexOf(s, ch) ==
    IF \E i \in 1..Len(s) : s[i] = ch
    THEN Max({i \in 1..Len(s) : s[i] = ch}) - 1
    ELSE -1

\* String.prototype.substring(a, b): both clamped to [0, length], swapped
\* when a > b
Substring(s, a, b) ==
    LET Clamp(x) == IF x < 0 THEN 0 ELSE IF x > Len(s) THEN Len(s) ELSE x
        lo == IF Clamp(a) <= Clamp(b) THEN Clamp(a) ELSE Clamp(b)
        hi == IF Clamp(a) <= Clamp(b) THEN Clamp(b) ELSE Clamp(a)
    IN  SubSeq(s, lo + 1, hi)

\* the text s has pat at (1-based) position i
HasAt(s, pat, i) ==
    /\ i >= 1
    /\ i + Len(pat) - 1 <= Len(s)
    /\ \A k \in 1..Len(pat) : s[i + k - 1] = pat[k]

\* first position >= i holding a character outside S (Len(s) + 1 if none)
SkipWhile(s, i, S) ==
    IF \E j \in i..Len(s) : s[j] \notin S
    THEN Min({j \in i..Len(s) : s[j] \notin S})
    ELSE Len(s) + 1

\* first position >= i holding a character of S (Len(s) + 1 if none)
FindFirst(s, i, S) ==
    IF \E j \in i..Len(s) : s[j] \in S
    THEN Min({j \in i..Len(s) : s[j] \in S})
    ELSE Len(s) + 1

\* .replace(/\/\/.*$/gm, ''): drop from // to the end of its line
RECURSIVE StripCommentsFrom(_, _)
StripCommentsFrom(s, i) ==
    IF i > Len(s) THEN <<>>
    ELSE IF HasAt(s, <<"/", "/">>, i)
         THEN StripCommentsFrom(s, FindFirst(s, i, LineTerminators))
         ELSE <<s[i]>> \o StripCommentsFrom(s, i + 1)

StripComments(s) == StripCommentsFrom(s, 1)

\* .replace(/,(\s*[}\]])/g, '$1'): drop a comma followed by white space and
\* a closing bracket
StripTrailingCommas(s) ==
    LET Kept(i) ==
            ~ /\ s[i] = ","
              /\ SkipWhile(s, i + 1, Whitespace) <= Len(s)
              /\ s[SkipWhile(s, i + 1, Whitespace)] \in {"}", "]"}
        kept == SelectSeq([i \in 1..Len(s) |-> i], Kept)
    IN  [n \in 1..Len(kept) |-> s[kept[n]]]

\* one match of /(['"])?([a-zA-Z0-9_]+)(['"])?:/ starting exactly at i:
\* end = position after the match (0: no match at i), word = $2
KeyMatchAt(s, i) ==
    LET w == IF s[i] \in Quotes THEN i + 1 ELSE i
        e == SkipWhile(s, w, WordChars)
    IN  IF e = w THEN [end |-> 0, word |-> <<>>]
        ELSE IF e + 1 <= Len(s) /\ s[e] \in Quotes /\ s[e + 1] = ":"
             THEN [end |-> e + 2, word |-> SubSeq(s, w, e - 1)]
        ELSE IF e <= Len(s) /\ s[e] = ":"
             THEN [end |-> e + 1, word |-> SubSeq(s, w, e - 1)]
        ELSE [end |-> 0, word |-> <<>>]

\* .replace(/(['"])?([a-zA-Z0-9_]+)(['"])?:/g, '"$2":')
RECURSIVE QuoteKeysFrom(_, _)
QuoteKeysFrom(s, i) ==
    IF i > Len(s) THEN <<>>
    ELSE LET m == KeyMatchAt(s, i)
         IN  IF m.end # 0
             THEN <<"\"">> \o m.word \o <<"\"", ":">> \o QuoteKeysFrom(s, m.end)
             ELSE <<s[i]>> \o QuoteKeysFrom(s, i + 1)

QuoteKeys(s) == QuoteKeysFrom(s, 1)

\* .replace(/'/g, '"')
ReplaceSingleQuotes(s) == [i \in 1..Len(s) |-> IF s[i] = "'" THEN "\"" ELSE s[i]]

\* the four chained replace calls
Normalize(objStr) ==
    ReplaceSingleQuotes(QuoteKeys(StripTrailingCommas(StripComments(objStr))))

(***************************************************************************)
(* JSON.parse, for the documents the model feeds it: one flat object whose *)
(* keys and values are strings without escapes.  Any other text handed to  *)
(* it in this model is not valid JSON.                                     *)
(* An object is a sequence of <<key, value>> pairs in property order.      *)
(***************************************************************************)
JsonFail == [ok |-> FALSE, obj |-> <<>>]

JsonOk(o) == [ok |-> TRUE, obj |-> o]

\* a string literal whose opening quote is at i: end = position after the
\* closing quote (0: no well-formed string at i)
JsonStringAt(s, i) ==
    IF i > Len(s) \/ s[i] # "\"" THEN [end |-> 0, val |-> <<>>]
    ELSE LET j == FindFirst(s, i + 1, {"\""})
         IN  IF j > Len(s) \/ \E k \in (i + 1)..(j - 1) : s[k] \in {"\n", "\t"}
             THEN [end |-> 0, val |-> <<>>]
             ELSE [end |-> j + 1, val |-> SubSeq(s, i + 1, j - 1)]

\* property assignment: an existing key keeps its place and takes the value
PutProperty(o, k, v) ==
    IF \E i \in 1..Len(o) : o[i][1] = k
    THEN [i \in 1..Len(o) |-> IF o[i][1] = k THEN <<k, v>> ELSE o[i]]
    ELSE Append(o, <<k, v>>)

DigitValue(c) ==
    CASE c = "0" -> 0 [] c = "1" -> 1 [] c = "2" -> 2 [] c = "3" -> 3
      [] c = "4" -> 4 [] c = "5" -> 5 [] c = "6" -> 6 [] c = "7" -> 7
      [] c = "8" -> 8 [] c = "9" -> 9

RECURSIVE DigitsToNat(_)
DigitsToNat(d) ==
    IF Len(d) = 0 THEN 0
    ELSE 10 * DigitsToNat(SubSeq(d, 1, Len(d) - 1)) + DigitValue(d[Len(d)])

\* a property name that is a canonical array index (up to nine digits here)
IsArrayIndex(k) ==
    /\ Len(k) \in 1..9
    /\ \A i \in 1..Len(k) : k[i] \in Digits
    /\ (Len(k) = 1 \/ k[1] # "0")

\* own-property order of a JavaScript object: array-index names ascending,
\* then the other names in creation order
PropertyOrder(o) ==
    LET idx == {i \in 1..Len(o) : IsArrayIndex(o[i][1])}
        Rank(i) == Cardinality({j \in idx :
                       DigitsToNat(o[j][1]) < DigitsToNat(o[i][1])}) + 1
        NotIndex(p) == ~IsArrayIndex(p[1])
    IN  [n \in 1..Cardinality(idx) |-> o[CHOOSE i \in idx : Rank(i) = n]]
        \o SelectSeq(o, NotIndex)

RECURSIVE JsonMembers(_, _, _)
JsonMembers(s, i, acc) ==
    LET k == JsonStringAt(s, i)
        c == SkipWhile(s, k.end, Whitespace)
        v == JsonStringAt(s, SkipWhile(s, c + 1, Whitespace))
        d == SkipWhile(s, v.end, Whitespace)
        o == PutProperty(acc, k.val, v.val)
    IN  IF k.end = 0 THEN JsonFail
        ELSE IF c > Len(s) \/ s[c] # ":" THEN JsonFail
        ELSE IF v.end = 0 THEN JsonFail
        ELSE IF d > Len(s) THEN JsonFail
        ELSE IF s[d] = "}"
             THEN IF SkipWhile(s, d + 1, Whitespace) > Len(s)
                  THEN JsonOk(PropertyOrder(o)) ELSE JsonFail
        ELSE IF s[d] = ","
             THEN JsonMembers(s, SkipWhile(s, d + 1, Whitespace), o)
        ELSE JsonFail

JsonParse(s) ==
    LET a == SkipWhile(s, 1, Whitespace)
        b == SkipWhile(s, a + 1, Whitespace)
    IN  IF a > Len(s) \/ s[a] # "{" THEN JsonFail
        ELSE IF b <= Len(s) /\ s[b] = "}"
             THEN IF SkipWhile(s, b + 1, Whitespace) > Len(s)
                  THEN JsonOk(<<>>) ELSE JsonFail
        ELSE JsonMembers(s, b, <<>>)

(***************************************************************************)
(* fetchChainData                                                          *)
(***************************************************************************)
\* the object-extraction step: [thrown |-> an exception reached the catch
\* block of extractObject, obj |-> the value extractObject returns]
ExtractObject(content) ==
    LET startIdx == IndexOf(content, "{")
        endIdx == LastIndexOf(content, "}") + 1
        objStr == Substring(content, startIdx, endIdx)
        parsed == JsonParse(Normalize(objStr))
    IN  IF startIdx = -1 \/ endIdx = -1 THEN [thrown |-> TRUE, obj |-> <<>>]
        ELSE IF ~parsed.ok THEN [thrown |-> TRUE, obj |-> <<>>]
        ELSE [thrown |-> FALSE, obj |-> parsed.obj]

popularNetworks ==
    << K_ethereum, K_arbitrum, K_optimism, K_polygon, K_base,
       K_avalanche, K_binance, K_fantom, K_gnosis, K_zksync >>

\* Object.values
ObjectValues(o) == [i \in 1..Len(o) |-> o[i][2]]

\* the Set filled from Object.values(chainIds), in insertion order
RECURSIVE Distinct(_)
Distinct(s) ==
    IF Len(s) = 0 THEN <<>>
    ELSE LET front == Distinct(SubSeq(s, 1, Len(s) - 1))
         IN  IF s[Len(s)] \in Range(front) THEN front
             ELSE Append(front, s[Len(s)])

AllNetworks(chainIds) == Distinct(ObjectValues(chainIds))

\* [...popularNetworks.filter(has), ...Array.from(allNetworks).filter(!includes)]
NetworkList_NoFilter(chainIds) ==
    LET Present(n) == n \in Range(AllNetworks(chainIds))
    IN  SelectSeq(popularNetworks, Present) \o AllNetworks(chainIds)
NetworkList(chainIds) ==
    LET Present(n) == n \in Range(AllNetworks(chainIds))
        NotPopular(n) == n \notin Range(popularNetworks)
    IN  SelectSeq(popularNetworks, Present)
        \o SelectSeq(AllNetworks(chainIds), NotPopular)

\* the if/else chain that picks a network's explorer URL
ExplorerFor(networkName) ==
    CASE networkName = K_ethereum -> X_ethereum
      [] networkName = K_binance -> X_binance
      [] networkName = K_polygon -> X_polygon
      [] networkName = K_arbitrum -> X_arbitrum
      [] networkName = K_optimism -> X_optimism
      [] networkName = K_base -> X_base
      [] networkName = K_avalanche -> X_avalanche
      [] networkName = K_fantom -> X_fantom
      [] networkName = K_gnosis -> X_gnosis
      [] networkName = K_zksync -> X_zksync
      [] OTHER -> ScanPrefix \o networkName \o ScanSuffix

\* explorers: a record keyed by network key
Explorers(chainIds) ==
    [n \in Range(ObjectValues(chainIds)) |-> ExplorerFor(n)]

\* the literal returned by the catch block of fetchChainData
FallbackChainData ==
    [chainIds |-> << <<Id_1, K_ethereum>>, <<Id_10, K_optimism>>,
                     <<Id_137, K_polygon>>, <<Id_42161, K_arbitrum>>,
                     <<Id_8453, K_base>> >>,
     explorers |->
        (K_ethereum :> X_ethereum)
        @@ (K_optimism :> X_optimism)
        @@ (K_polygon :> X_polygon)
        @@ (K_arbitrum :> X_arbitrum)
        @@ (K_base :> X_base),
     networkList |-> << K_ethereum, K_arbitrum, K_optimism,
                        K_polygon, K_base >>]

\* a response is [kind |-> "ok" | "non2xx" | "neterr", text |-> its body]:
\* fetch rejects on a network-level failure, response.ok is false on non-2xx
FetchThrows(resp) == resp.kind = "neterr"

ResponseOk(resp) == resp.kind = "ok"

\* an exception reaches the catch block of fetchChainData
ChainFetchFailed_IgnoreStatus(resp) == FetchThrows(resp)
ChainFetchFailed(resp) == FetchThrows(resp) \/ ~ResponseOk(resp)

\* the value fetchChainData resolves to
FetchChainDataResult(resp) ==
    IF ChainFetchFailed(resp) THEN FallbackChainData
    ELSE LET chainIds == ExtractObject(resp.text).obj
         IN  [chainIds |-> chainIds,
              explorers |-> Explorers(chainIds),
              networkList |-> NetworkList(chainIds)]

(***************************************************************************)
(* The remote chainIds.js document: an object literal of chain ID ->       *)
(* network key entries, served in one of several shapes                    *)
(***************************************************************************)
MaxEntries == 3

ChainShapes == {"json", "script", "noBraces", "noClose", "bareValue"}

ChainEntryPool == {Id_1, Id_5, Id_11} \X {K_ethereum, K_base, K_ubiq}

RECURSIVE Concat(_)
Concat(ss) == IF Len(ss) = 0 THEN <<>> ELSE Head(ss) \o Concat(Tail(ss))

\* "1":"base" entries separated by commas
JsonEntries(entries) ==
    Concat([i \in 1..Len(entries) |->
              (IF i > 1 THEN <<",">> ELSE <<>>)
              \o <<"\"">> \o entries[i][1] \o <<"\"", ":", "\"">>
              \o entries[i][2] \o <<"\"">>])

\* one line per entry: bare key, single-quoted value, comma, line comment
ScriptEntries(entries) ==
    Concat([i \in 1..Len(entries) |->
              <<" ">> \o entries[i][1] \o <<":", " ", "'">> \o entries[i][2]
              \o <<"'", ",">> \o LineComment \o <<"\n">>])

\* entries whose values are bare words
BareEntries(entries) ==
    Concat([i \in 1..Len(entries) |->
              (IF i > 1 THEN <<",">> ELSE <<>>)
              \o <<" ">> \o entries[i][1] \o <<":", " ">> \o entries[i][2]])

ChainText(entries, shape) ==
    CASE shape = "json" -> <<"{">> \o JsonEntries(entries) \o <<"}">>
      [] shape = "script" ->
            ExportDefault \o <<"{", "\n">> \o ScriptEntries(entries)
            \o <<"}", ";", "\n">>
      [] shape = "noBraces" -> ScriptEntries(entries)
      [] shape = "noClose" ->
            ExportDefault \o <<"{", "\n">> \o ScriptEntries(entries)
      [] shape = "bareValue" -> <<"{">> \o BareEntries(entries) \o <<" ", "}">>

ChainInputs ==
    {[kind |-> "ok", entries |-> e, shape |-> sh] :
        e \in SeqsUpTo(ChainEntryPool, MaxEntries), sh \in ChainShapes}
    \cup {[kind |-> k, entries |-> <<>>, shape |-> "json"] :
            k \in {"non2xx", "neterr"}}

\* the response the chainIds.js request ends with
ChainResponse(in) ==
    CASE in.kind = "ok" -> [kind |-> "ok", text |-> ChainText(in.entries, in.shape)]
      [] in.kind = "non2xx" -> [kind |-> "non2xx", text |-> NotFoundBody]
      [] in.kind = "neterr" -> [kind |-> "neterr", text |-> <<>>]

NoData == [chainIds |-> <<>>, explorers |-> <<>>, networkList |-> <<>>]

InitChain ==
    /\ chainInput \in ChainInputs
    /\ chainResp = ChainResponse(chainInput)
    /\ dpc = "start"
    /\ chainData = NoData
    /\ rpcInput = [kind |-> "neterr", records |-> <<>>]
    /\ rpcResp = [kind |-> "neterr", text |-> <<>>]
    /\ rpcData = [networks |-> <<>>, networkList |-> <<>>]
    /\ logs = {}
    /\ ProbeIdle
    /\ ViewMounted

\* console.error calls made while fetchChainData runs
ChainLogs(resp) ==
    IF ChainFetchFailed(resp) THEN {"Error fetching chain data"}
    ELSE IF ExtractObject(resp.text).thrown THEN {"Failed to extract object"}
    ELSE {}

\* const { chainIds, explorers, networkList } = await fetchChainData()
FetchChainData ==
    /\ dpc = "start"
    /\ chainData' = FetchChainDataResult(chainResp)
    /\ logs' = logs \cup ChainLogs(chainResp)
    /\ dpc' = "chainDone"
    /\ UNCHANGED <<chainInput, chainResp, rpcInput, rpcResp, rpcData>>
    /\ UNCHANGED <<probeVars, viewVars>>

(***************************************************************************)
(* fetchRpcData                                                            *)
(***************************************************************************)
\* parseInt(chainId, 10) followed by chainId.toString(): the decimal digits
\* of the leading integer (white space skipped, no sign in these texts), or
\* NaN when the text does not start with a digit
ChainIdStr(key) ==
    LET a == SkipWhile(key, 1, Whitespace)
        b == SkipWhile(key, a, Digits)
        z == SkipWhile(key, a, {"0"})
    IN  IF b = a THEN NaN
        ELSE IF z >= b THEN <<"0">>
        ELSE SubSeq(key, z, b - 1)

\* networkKeyToChainId: filled from Object.entries(chainIds), a later entry
\* with the same network key overwrites the earlier one
RECURSIVE NetworkKeyToChainIdFrom(_, _, _)
NetworkKeyToChainIdFrom(chainIds, i, acc) ==
    IF i > Len(chainIds) THEN PropertyOrder(acc)
    ELSE NetworkKeyToChainIdFrom(chainIds, i + 1,
             PutProperty(acc, chainIds[i][2], ChainIdStr(chainIds[i][1])))

NetworkKeyToChainId(chainIds) == NetworkKeyToChainIdFrom(chainIds, 1, <<>>)

NoMatch == [found |-> FALSE, group |-> <<>>]

\* one match of `${id}:\s*{[^}]*${field}\s*${open}(${body}+)${close}`
\* starting exactly at s, where body is any character outside closers and
\* open/close are sets of characters; [^}]* is greedy, so the last field
\* before the first } that completes the match is taken
FieldMatchAt(text, id, field, opens, closers, s) ==
    LET b == SkipWhile(text, s + Len(id) + 1, Whitespace)
        stop == FindFirst(text, b + 1, {"}"})
        Open(q) == SkipWhile(text, q + Len(field), Whitespace)
        Good(q) ==
            /\ HasAt(text, field, q)
            /\ Open(q) + 1 <= Len(text)
            /\ text[Open(q)] \in opens
            /\ text[Open(q) + 1] \notin closers
            /\ FindFirst(text, Open(q) + 1, closers) <= Len(text)
        qs == {q \in (b + 1)..(stop - 1) : Good(q)}
    IN  IF /\ HasAt(text, id \o <<":">>, s)
           /\ b <= Len(text)
           /\ text[b] = "{"
           /\ qs # {}
        THEN [found |-> TRUE,
              group |-> SubSeq(text, Open(Max(qs)) + 1,
                               FindFirst(text, Open(Max(qs)) + 1, closers) - 1)]
        ELSE NoMatch

\* text.match(regex): the leftmost match
FieldMatch(text, id, field, opens, closers) ==
    LET starts == {s \in 1..Len(text) :
                     FieldMatchAt(text, id, field, opens, closers, s).found}
    IN  IF starts = {} THEN NoMatch
        ELSE FieldMatchAt(text, id, field, opens, closers, Min(starts))

\* new RegExp(`${chainIdStr}:\\s*{[^}]*rpcs:\\s*\\[([^\\]]+)\\]`, 's')
RpcsMatch(text, chainIdStr) == FieldMatch(text, chainIdStr, RpcsField, {"["}, {"]"})

\* new RegExp(`${chainIdStr}:\\s*{[^}]*name:\\s*["']([^"']+)["']`, 's')
NameMatch(text, chainIdStr) == FieldMatch(text, chainIdStr, NameField, Quotes, Quotes)

\* the exec loop of /${prefix}\s*${q}([^${q}]+)${q}/g from position i (the
\* white space is only skipped after a non-empty prefix)
RECURSIVE QuotedFrom(_, _, _, _)
QuotedFrom(s, prefix, q, i) ==
    IF i > Len(s) THEN <<>>
    ELSE LET o == IF Len(prefix) = 0 THEN i
                  ELSE SkipWhile(s, i + Len(prefix), Whitespace)
             c == FindFirst(s, o + 1, {q})
         IN  IF /\ HasAt(s, prefix, i)
                /\ o + 1 <= Len(s)
                /\ s[o] = q
                /\ s[o + 1] # q
                /\ c <= Len(s)
             THEN <<SubSeq(s, o + 1, c - 1)>> \o QuotedFrom(s, prefix, q, c + 1)
             ELSE QuotedFrom(s, prefix, q, i + 1)

\* String.prototype.includes
Includes(s, pat) == \E i \in 1..Len(s) : HasAt(s, pat, i)

\* url.startsWith('http') && !url.includes('privacy')
LooksLikeUrl(url) == HasAt(url, Http, 1) /\ ~Includes(url, Privacy)

\* the three extraction loops over rpcSection, in the order they push
RpcUrls(rpcSection) ==
    QuotedFrom(rpcSection, <<>>, "'", 1)
    \o QuotedFrom(rpcSection, UrlField, "'", 1)
    \o SelectSeq(QuotedFrom(rpcSection, <<>>, "\"", 1), LooksLikeUrl)

LowerSeq == <<"a", "b", "c", "d", "e", "f", "g", "h", "i", "j", "k", "l", "m",
              "n", "o", "p", "q", "r", "s", "t", "u", "v", "w", "x", "y", "z">>

UpperSeq == <<"A", "B", "C", "D", "E", "F", "G", "H", "I", "J", "K", "L", "M",
              "N", "O", "P", "Q", "R", "S", "T", "U", "V", "W", "X", "Y", "Z">>

\* networkKey.charAt(0).toUpperCase() + networkKey.slice(1)
Capitalize(key) ==
    IF Len(key) = 0 THEN key
    ELSE IF \E i \in 1..26 : LowerSeq[i] = key[1]
         THEN <<UpperSeq[CHOOSE i \in 1..26 : LowerSeq[i] = key[1]]>> \o Tail(key)
         ELSE key

\* explorers[networkKey] || ""
BlockExplorer(explorers, networkKey) ==
    IF networkKey \in DOMAIN explorers THEN explorers[networkKey] ELSE <<>>

\* the NetworkInfo built for one [networkKey, chainId] entry
NetworkInfoFor(text, explorers, networkKey, chainIdStr) ==
    [name |-> IF NameMatch(text, chainIdStr).found
              THEN NameMatch(text, chainIdStr).group
              ELSE Capitalize(networkKey),
     chainId |-> chainIdStr,
     rpcs |-> RpcUrls(RpcsMatch(text, chainIdStr).group),
     blockExplorer |-> BlockExplorer(explorers, networkKey)]

\* if (rpcUrls.length > 0) networksMap[networkKey] = ...
Recorded_Always(text, chainIdStr) == RpcsMatch(text, chainIdStr).found
Recorded(text, chainIdStr) ==
    /\ RpcsMatch(text, chainIdStr).found
    /\ Len(RpcUrls(RpcsMatch(text, chainIdStr).group)) > 0

\* networksMap after the forEach over Object.entries(networkKeyToChainId)
NetworksMap(cd, text) ==
    LET byKey == NetworkKeyToChainId(cd.chainIds)
        kept == {i \in 1..Len(byKey) : Recorded(text, byKey[i][2])}
        At(k) == CHOOSE i \in kept : byKey[i][1] = k
    IN  [k \in {byKey[i][1] : i \in kept} |->
            NetworkInfoFor(text, cd.explorers, k, byKey[At(k)][2])]

\* the literal returned by the catch block of fetchRpcData
FallbackRpcData ==
    [networks |->
        (K_ethereum :> [name |-> N_Ethereum, chainId |-> Id_1,
                        rpcs |-> <<R_ethereum>>, blockExplorer |-> X_ethereum])
        @@ (K_arbitrum :> [name |-> N_Arbitrum, chainId |-> Id_42161,
                           rpcs |-> <<R_arbitrum>>, blockExplorer |-> X_arbitrum])
        @@ (K_optimism :> [name |-> N_Optimism, chainId |-> Id_10,
                           rpcs |-> <<R_optimism>>, blockExplorer |-> X_optimism])
        @@ (K_polygon :> [name |-> N_Polygon, chainId |-> Id_137,
                          rpcs |-> <<R_polygon>>, blockExplorer |-> X_polygon])
        @@ (K_base :> [name |-> N_Base, chainId |-> Id_8453,
                       rpcs |-> <<R_base>>, blockExplorer |-> X_base]),
     networkList |-> <<K_ethereum, K_arbitrum, K_optimism, K_polygon, K_base>>]

\* an exception reaches the catch block of fetchRpcData
RpcFetchFailed(resp) == FetchThrows(resp) \/ ~ResponseOk(resp)

\* the value fetchRpcData resolves to, given what fetchChainData resolved to
FetchRpcDataResult(cd, resp) ==
    IF RpcFetchFailed(resp) THEN FallbackRpcData
    ELSE [networks |-> NetworksMap(cd, resp.text),
          networkList |-> cd.networkList]

(***************************************************************************)
(* The remote extraRpcs.js document: per chain ID a record that may hold   *)
(* an rpcs array and a name                                                *)
(***************************************************************************)
MaxRecords == 2

\* what a record holds: form of its rpcs array and the URLs in it
RpcPayloads ==
    {[form |-> "single", urls |-> <<U_a, U_b>>],
     [form |-> "single", urls |-> <<U_b>>],
     [form |-> "double", urls |-> <<U_a>>],
     [form |-> "object", urls |-> <<U_a>>],
     [form |-> "tracking", urls |-> <<>>],
     [form |-> "none", urls |-> <<>>]}

RpcRecordPool ==
    {[id |-> i, form |-> p.form, urls |-> p.urls] :
        i \in {Id_1, Id_11}, p \in RpcPayloads}

\* the elements of an rpcs array
RpcArrayItems(r) ==
    CASE r.form = "single" ->
            Concat([i \in 1..Len(r.urls) |->
                      <<"'">> \o r.urls[i] \o <<"'", ",", " ">>])
      [] r.form = "double" ->
            Concat([i \in 1..Len(r.urls) |->
                      <<"\"">> \o r.urls[i] \o <<"\"", ",", " ">>])
      [] r.form = "object" ->
            Concat([i \in 1..Len(r.urls) |->
                      <<"{", " ">> \o UrlField \o <<" ", "'">> \o r.urls[i]
                      \o <<"'", " ", "}", ",", " ">>])
      [] r.form = "tracking" -> <<"\"">> \o TrackingNone \o <<"\"">>
      [] r.form = "none" -> <<>>

\* one record: ` 11: { name: 'Ubiq', rpcs: [ ... ] },` or, without an rpcs
\* array, ` 11: { name: 'Ubiq' },`
RpcRecordText(r) ==
    <<" ">> \o r.id \o <<":", " ", "{", " ">>
    \o (IF r.form = "none"
        THEN NameField \o <<" ", "'">> \o RecordName \o <<"'", " ">>
        ELSE RpcsField \o <<" ", "[">> \o RpcArrayItems(r) \o <<"]", " ">>)
    \o <<"}", ",", "\n">>

RpcText(records) ==
    RpcHeader \o <<"{", "\n">>
    \o Concat([i \in 1..Len(records) |-> RpcRecordText(records[i])])
    \o <<"}", ";", "\n">>

RpcInputs ==
    {[kind |-> "ok", records |-> r] : r \in SeqsUpTo(RpcRecordPool, MaxRecords)}
    \cup {[kind |-> k, records |-> <<>>] : k \in {"non2xx", "neterr"}}

\* the response the extraRpcs.js request ends with
RpcResponse(in) ==
    CASE in.kind = "ok" -> [kind |-> "ok", text |-> RpcText(in.records)]
      [] in.kind = "non2xx" -> [kind |-> "non2xx", text |-> NotFoundBody]
      [] in.kind = "neterr" -> [kind |-> "neterr", text |-> <<>>]

\* the chainIds.js documents the RPC extraction is run against
RpcChainInputs ==
    {[kind |-> "ok", entries |-> e, shape |-> "json"] :
        e \in { <<>>,
                << <<Id_1, K_ethereum>> >>,
                << <<Id_11, K_ubiq>> >>,
                << <<Id_1, K_ethereum>>, <<Id_11, K_ubiq>> >>,
                << <<Id_1, K_ethereum>>, <<Id_11, K_ethereum>> >> }}
    \cup {[kind |-> k, entries |-> <<>>, shape |-> "json"] :
            k \in {"non2xx", "neterr"}}

NoRpcData == [networks |-> <<>>, networkList |-> <<>>]

InitRpc ==
    /\ chainInput \in RpcChainInputs
    /\ chainResp = ChainResponse(chainInput)
    /\ rpcInput \in RpcInputs
    /\ rpcResp = RpcResponse(rpcInput)
    /\ dpc = "start"
    /\ chainData = NoData
    /\ rpcData = NoRpcData
    /\ logs = {}
    /\ ProbeIdle
    /\ ViewMounted

\* the rest of fetchRpcData once fetchChainData has resolved: the extraRpcs.js
\* request, the extraction, the return (or the catch block's fallback)
FetchRpcData ==
    /\ dpc = "chainDone"
    /\ rpcData' = FetchRpcDataResult(chainData, rpcResp)
    /\ logs' = logs \cup (IF RpcFetchFailed(rpcResp)
                          THEN {"Error fetching RPC data"} ELSE {})
    /\ dpc' = "done"
    /\ UNCHANGED <<chainInput, chainResp, rpcInput, rpcResp, chainData>>
    /\ UNCHANGED <<probeVars, viewVars>>

(***************************************************************************)
(* useRpcData                                                              *)
(***************************************************************************)
\* loadRpcData after `await fetchRpcData()`: setNetworksData, setNetworkList
\* and, in the finally block, setLoading(false).  fetchRpcData catches
\* whatever its body throws, so the catch block with setError never runs.
LoadRpcData ==
    /\ dpc = "done"
    /\ networksData' = [isNull |-> FALSE, value |-> rpcData.networks]
    /\ networkList' = rpcData.networkList
    /\ loadingNetworks' = FALSE
    /\ dpc' = "loaded"
    /\ UNCHANGED <<chainInput, chainResp, rpcInput, rpcResp, chainData, rpcData,
                   logs>>
    /\ UNCHANGED <<networkError, viewerVars>>
    /\ UNCHANGED probeVars

NextRpc == FetchChainData \/ FetchRpcData \/ LoadRpcData

SpecRpc == InitRpc /\ [][NextRpc]_vars

NextChain == FetchChainData

SpecChain == InitChain /\ [][NextChain]_vars

(***************************************************************************)
(* Properties of fetchChainData                                            *)
(***************************************************************************)
\* the five-network fallback set the specification names
FiveChainIds ==
    {<<Id_1, K_ethereum>>, <<Id_10, K_optimism>>, <<Id_137, K_polygon>>,
     <<Id_42161, K_arbitrum>>, <<Id_8453, K_base>>}

FiveKeys == {K_ethereum, K_optimism, K_polygon, K_arbitrum, K_base}

IsFiveNetworkFallback(cd) ==
    /\ Len(cd.chainIds) = 5
    /\ Range(cd.chainIds) = FiveChainIds
    /\ DOMAIN cd.explorers = FiveKeys
    /\ Range(cd.networkList) = FiveKeys

\* C6: whenever the chain-ID text cannot be parsed (extractObject's catch
\* block ran), fetchChainData returns the five-network fallback set, not an
\* empty mapping.
C6_ParseFailureYieldsFallback ==
    (dpc = "chainDone" /\ "Failed to extract object" \in logs) =>
        IsFiveNetworkFallback(chainData)

\* C7: if the metadata fetch fails (network failure or non-2xx response), the
\* chain-ID mapping fetchChainData returns has exactly the five entries
\* 1->ethereum, 10->optimism, 137->polygon, 42161->arbitrum, 8453->base.
C7_FetchFailureYieldsFiveEntries ==
    (dpc = "chainDone" /\ chainInput.kind \in {"non2xx", "neterr"}) =>
        /\ Len(chainData.chainIds) = 5
        /\ Range(chainData.chainIds) = FiveChainIds
        /\ "Error fetching chain data" \in logs

\* C7 witness: the request was answered with a non-2xx response and
\* fetchChainData has resolved.
C7_Witness ==
    /\ dpc = "chainDone"
    /\ chainInput.kind = "non2xx"
    /\ chainResp.text = NotFoundBody
    /\ Len(chainData.chainIds) = 5

IsPopular(n) == \E i \in 1..Len(popularNetworks) : popularNetworks[i] = n

PopularIndex(n) == CHOOSE i \in 1..Len(popularNetworks) : popularNetworks[i] = n

\* C10: the networkList has no duplicate keys, holds exactly the distinct
\* network keys of the chain-ID mapping, and every popular key in it comes, in
\* the fixed popular order, before every non-popular key.
C10_NetworkListPrioritized ==
    dpc = "chainDone" =>
        LET list == chainData.networkList
            keys == {chainData.chainIds[i][2] : i \in 1..Len(chainData.chainIds)}
        IN  /\ \A i, j \in 1..Len(list) : i < j => list[i] # list[j]
            /\ Range(list) = keys
            /\ \A i, j \in 1..Len(list) :
                 (i < j /\ IsPopular(list[j])) =>
                     /\ IsPopular(list[i])
                     /\ PopularIndex(list[i]) < PopularIndex(list[j])

\* C10 witness: a parsed mapping whose values, in property order, are a
\* non-popular key, then base, then ethereum; the list reorders all three.
C10_Witness ==
    /\ dpc = "chainDone"
    /\ chainInput.kind = "ok"
    /\ ObjectValues(chainData.chainIds) = <<K_ubiq, K_base, K_ethereum>>
    /\ chainData.networkList = <<K_ethereum, K_base, K_ubiq>>

(***************************************************************************)
(* Properties of fetchRpcData                                              *)
(***************************************************************************)
\* the records of the extraRpcs.js document that belong to chain ID id
RecordsOf(id) == {j \in 1..Len(rpcInput.records) : rpcInput.records[j].id = id}

\* C8: a chain ID of the metadata map for which the RPC-list text holds no
\* record contributes no entry to the NetworksMap, whatever records of other
\* chain IDs the text holds.
C8_AbsentChainContributesNothing ==
    (dpc = "done" /\ rpcInput.kind = "ok") =>
        \A i \in 1..Len(chainData.chainIds) :
            RecordsOf(chainData.chainIds[i][1]) = {} =>
                \A k \in DOMAIN rpcData.networks :
                    rpcData.networks[k].chainId # chainData.chainIds[i][1]

\* C9: for every chain ID of the metadata map whose own record holds an rpcs
\* array of single-quoted URLs, the NetworkInfo under that chain's network key
\* has exactly those URLs, in text order, whatever records precede it.
C9_OwnRpcsInTextOrder ==
    (dpc = "done" /\ rpcInput.kind = "ok") =>
        \A i \in 1..Len(chainData.chainIds) :
            \A j \in RecordsOf(chainData.chainIds[i][1]) :
                (/\ RecordsOf(chainData.chainIds[i][1]) = {j}
                 /\ rpcInput.records[j].form = "single") =>
                    /\ chainData.chainIds[i][2] \in DOMAIN rpcData.networks
                    /\ rpcData.networks[chainData.chainIds[i][2]].rpcs
                         = rpcInput.records[j].urls

\* C11: every NetworkInfo of the NetworksMap fetchRpcData returns, live or
\* fallback, has at least one RPC URL, so handing a stored rpcs list to
\* findWorkingRpc never meets its empty-list check.
C11_NoEmptyRpcEntries ==
    dpc = "done" =>
        \A k \in DOMAIN rpcData.networks : Len(rpcData.networks[k].rpcs) > 0

\* C11 witness: on the live path the rpcs array of chain 1 was found but held
\* no URL, so ethereum has no entry, while chain 11 was recorded with its URLs.
C11_Witness ==
    /\ dpc = "done"
    /\ rpcInput.kind = "ok"
    /\ chainData.chainIds = << <<Id_1, K_ethereum>>, <<Id_11, K_ubiq>> >>
    /\ Len(rpcInput.records) = 2
    /\ rpcInput.records[1].id = Id_1
    /\ rpcInput.records[1].form = "tracking"
    /\ RpcsMatch(rpcResp.text, Id_1).found
    /\ K_ethereum \notin DOMAIN rpcData.networks
    /\ K_ubiq \in DOMAIN rpcData.networks

\* C12: whatever the two remote fetches end with, fetchRpcData returns a
\* NetworksMap with at least one network, and useRpcData ends with loading
\* false, error null and a non-empty networksData.
C12_AlwaysSomeNetwork ==
    /\ dpc \in {"done", "loaded"} => DOMAIN rpcData.networks # {}
    /\ dpc = "loaded" =>
        /\ loadingNetworks = FALSE
        /\ networkError = NoValue
        /\ ~networksData.isNull
        /\ DOMAIN networksData.value # {}

(***************************************************************************)
(* Well-formed object literals embedded in a script: keys bare or quoted,  *)
(* string values in single or double quotes, optional line comments and    *)
(* an optional trailing comma                                              *)
(***************************************************************************)
MaxPairs == 2

\* "x:y"
V_colon ==
    <<"x", ":", "y">>

\* the quote around a key ("": a bare key) and around a value
KeyQuotes == {"", "'", "\""}

ValueQuotes == {"'", "\""}

LiteralPairPool ==
    [key : {Id_1, Id_5}, keyQuote : KeyQuotes,
     value : {K_base, U_a, V_colon}, valueQuote : ValueQuotes]

Quoted(q, str) == IF q = "" THEN str ELSE <<q>> \o str \o <<q>>

\* one line per pair: ` 1: 'base',` and, with comments, ` // note` after it;
\* the comma after the last pair is the optional trailing comma
LiteralPairs(in) ==
    Concat([i \in 1..Len(in.entries) |->
              <<" ">> \o Quoted(in.entries[i].keyQuote, in.entries[i].key)
              \o <<":", " ">>
              \o Quoted(in.entries[i].valueQuote, in.entries[i].value)
              \o (IF i < Len(in.entries) \/ in.trailingComma
                  THEN <<",">> ELSE <<>>)
              \o (IF in.comments THEN LineComment ELSE <<>>)
              \o <<"\n">>])

LiteralText(in) ==
    ExportDefault \o <<"{", "\n">> \o LiteralPairs(in) \o <<"}", ";", "\n">>

LiteralInputs ==
    {[kind |-> "ok", entries |-> e, shape |-> "literal", comments |-> c,
      trailingComma |-> t] :
        e \in SeqsUpTo(LiteralPairPool, MaxPairs) \ {<<>>},
        c \in BOOLEAN, t \in BOOLEAN}

\* the already-valid JSON document with the same key/value pairs
EquivalentJson(in) ==
    <<"{">>
    \o JsonEntries([i \in 1..Len(in.entries) |->
                      <<in.entries[i].key, in.entries[i].value>>])
    \o <<"}">>

InitExtract ==
    /\ chainInput \in LiteralInputs
    /\ chainResp = [kind |-> "ok", text |-> LiteralText(chainInput)]
    /\ dpc = "start"
    /\ chainData = NoData
    /\ rpcInput = [kind |-> "neterr", records |-> <<>>]
    /\ rpcResp = [kind |-> "neterr", text |-> <<>>]
    /\ rpcData = NoRpcData
    /\ logs = {}
    /\ ProbeIdle
    /\ ViewMounted

SpecExtract == InitExtract /\ [][NextChain]_vars

\* C13: for a well-formed embedded object literal, extractObject (slice,
\* normalize, parse) yields the mapping that parsing the equivalent valid JSON
\* document yields, every string value unchanged.
C13_ExtractEqualsDirectParse ==
    dpc = "chainDone" =>
        /\ JsonParse(EquivalentJson(chainInput)).ok
        /\ chainData.chainIds = JsonParse(EquivalentJson(chainInput)).obj

(***************************************************************************)
(* TransactionViewer                                                       *)
(***************************************************************************)
\* what the hash input is edited to
Hashes == {"", "0xabc"}

\* neither the "Loading network data..." nor the error screen is returned:
\* the form with the select, the input and the button is rendered
FormRendered == ~loadingNetworks /\ networkError = NoValue

\* no synchronous code of a handler is running, so the browser dispatches
\* user events and the event loop runs completions
ViewerIdle == tpc # "started" /\ pc \notin {"start", "mapping"}

\* the <option> values: network keys of networkList that networksData holds
NetworkOptions ==
    IF networksData.isNull THEN {}
    ELSE {n \in Range(networkList) : n \in DOMAIN networksData.value}

\* onChange of the input: setTxHash(e.target.value)
SetTxHash(h) ==
    /\ FormRendered
    /\ ViewerIdle
    /\ h # txHash
    /\ txHash' = h
    /\ UNCHANGED <<network, transaction, loading, error, tpc>>
    /\ UNCHANGED <<probeVars, dataVars, hookVars>>

\* onChange of the select: setNetwork(e.target.value)
SetNetwork(n) ==
    /\ FormRendered
    /\ ViewerIdle
    /\ n \in NetworkOptions
    /\ n # network
    /\ network' = n
    /\ UNCHANGED <<txHash, transaction, loading, error, tpc>>
    /\ UNCHANGED <<probeVars, dataVars, hookVars>>

\* disabled={loading || !txHash}
ButtonDisabled == loading \/ txHash = ""

\* if (!txHash || loading || !networksData) return
CanStartLookup == txHash # "" /\ ~loading /\ ~networksData.isNull

\* setTransaction(null) at the start of a lookup
TransactionOnStart_Kept == transaction
TransactionOnStart == NoValue

\* a click on View Transaction: fetchTransaction up to the try block
FetchTransaction ==
    /\ FormRendered
    /\ ViewerIdle
    /\ ~ButtonDisabled
    /\ IF CanStartLookup
       THEN /\ loading' = TRUE
            /\ error' = NoValue
            /\ transaction' = TransactionOnStart
            /\ tpc' = "started"
       ELSE UNCHANGED <<transaction, loading, error, tpc>>
    /\ UNCHANGED <<network, txHash>>
    /\ UNCHANGED <<probeVars, dataVars, hookVars>>

\* const networkInfo = networksData[network]: an unknown network throws, the
\* catch block sets the error and the finally block resets loading; a known
\* one has findWorkingRpc called with its rpcs
LookupNetwork ==
    /\ tpc = "started"
    /\ IF network \notin DOMAIN networksData.value
       THEN /\ error' = "Network not found"
            /\ loading' = FALSE
            /\ tpc' = "idle"
            /\ UNCHANGED probeVars
       ELSE /\ rpcs' = networksData.value[network].rpcs
            /\ pc' = "start"
            /\ launched' = 0
            /\ probe' = [i \in 1..Len(rpcs') |-> "idle"]
            /\ outcome' = [i \in 1..Len(rpcs') |-> NoValue]
            /\ timer' = [i \in 1..Len(rpcs') |-> "unset"]
            /\ firstSettled' = 0
            /\ warnedProbe' = [i \in 1..Len(rpcs') |-> FALSE]
            /\ warnedAll' = FALSE
            /\ result' = NoResult
            /\ tpc' = "probing"
            /\ UNCHANGED <<loading, error>>
    /\ UNCHANGED <<network, txHash, transaction>>
    /\ UNCHANGED <<dataVars, hookVars>>

\* await findWorkingRpc(...) is over: a raised error goes to the catch and
\* finally blocks, a returned URL to new JsonRpcProvider and getTransaction.
\* The finished call is dropped from the state.
LookupProbed ==
    /\ tpc = "probing"
    /\ pc \in {"raised", "returned"}
    /\ IF pc = "raised"
       THEN /\ error' = "No RPCs provided"
            /\ loading' = FALSE
            /\ tpc' = "idle"
       ELSE /\ tpc' = "fetching"
            /\ UNCHANGED <<loading, error>>
    /\ rpcs' = <<>>
    /\ pc' = "off"
    /\ launched' = 0
    /\ probe' = <<>>
    /\ outcome' = <<>>
    /\ timer' = <<>>
    /\ firstSettled' = 0
    /\ warnedProbe' = <<>>
    /\ warnedAll' = FALSE
    /\ result' = NoResult
    /\ UNCHANGED <<network, txHash, transaction>>
    /\ UNCHANGED <<dataVars, hookVars>>

\* getTransaction resolved with a transaction: setTransaction(tx), finally
TxFound ==
    /\ tpc = "fetching"
    /\ transaction' = "tx"
    /\ loading' = FALSE
    /\ tpc' = "idle"
    /\ UNCHANGED <<network, txHash, error>>
    /\ UNCHANGED <<probeVars, dataVars, hookVars>>

\* getTransaction resolved with null: throw, catch, finally
TxNotFound ==
    /\ tpc = "fetching"
    /\ error' = "Transaction not found"
    /\ loading' = FALSE
    /\ tpc' = "idle"
    /\ UNCHANGED <<network, txHash, transaction>>
    /\ UNCHANGED <<probeVars, dataVars, hookVars>>

\* getTransaction rejected (malformed hash, RPC error): catch, finally
TxThrown ==
    /\ tpc = "fetching"
    /\ error' = "Failed to fetch transaction"
    /\ loading' = FALSE
    /\ tpc' = "idle"
    /\ UNCHANGED <<network, txHash, transaction>>
    /\ UNCHANGED <<probeVars, dataVars, hookVars>>

\* the documents the viewer is run against
ViewRpcInputs ==
    {[kind |-> "ok", records |-> r] :
        r \in { <<>>,
                << [id |-> Id_1, form |-> "single", urls |-> <<U_a, U_b>>] >>,
                << [id |-> Id_11, form |-> "single", urls |-> <<U_b>>] >>,
                << [id |-> Id_1, form |-> "single", urls |-> <<U_a, U_b>>],
                   [id |-> Id_11, form |-> "single", urls |-> <<U_b>>] >> }}
    \cup {[kind |-> "neterr", records |-> <<>>]}

InitView ==
    /\ chainInput \in RpcChainInputs
    /\ chainResp = ChainResponse(chainInput)
    /\ rpcInput \in ViewRpcInputs
    /\ rpcResp = RpcResponse(rpcInput)
    /\ dpc = "start"
    /\ chainData = NoData
    /\ rpcData = NoRpcData
    /\ logs = {}
    /\ ProbeIdle
    /\ ViewMounted

\* what the user does
UserStep ==
    \/ \E h \in Hashes : SetTxHash(h)
    \/ \E n \in NetworkOptions : SetNetwork(n)
    \/ FetchTransaction

\* the acquisition started by the effect of useRpcData
LoadStep ==
    \/ FetchChainData
    \/ FetchRpcData
    \/ LoadRpcData

\* what the event loop runs for a lookup: the continuations of
\* fetchTransaction and findWorkingRpc, completions of the requests, timers
LookupStep ==
    \/ LookupNetwork
    \/ Call
    \/ Launch
    \/ Await
    \/ \E i \in Idx : FetchOk(i)
    \/ \E i \in Idx : FetchNon2xx(i)
    \/ \E i \in Idx : FetchNetworkError(i)
    \/ \E i \in Idx : TimerFire(i)
    \/ Return
    \/ LookupProbed
    \/ TxFound
    \/ TxNotFound
    \/ TxThrown

NextView == UserStep \/ LoadStep \/ LookupStep

\* the event loop keeps running what is ready for a lookup: every probe
\* request settles or its timer fires, and getTransaction settles
SpecView == InitView /\ [][NextView]_vars /\ WF_vars(LookupStep)

\* C14: a lookup starts only with a non-empty hash, no lookup in flight and
\* network data loaded; a transaction and an error are never both displayed;
\* every started lookup eventually resets loading to false.
C14_LookupDiscipline ==
    /\ [][(tpc = "idle" /\ tpc' = "started") =>
            (txHash # "" /\ ~loading /\ ~networksData.isNull
             /\ ~loadingNetworks)]_vars
    /\ [](loading <=> tpc # "idle")
    /\ [](~(transaction # NoValue /\ error # NoValue))
    /\ (loading ~> ~loading)

\* C14 witness: a lookup has ended with a transaction after the hash was
\* cleared and another network selected while it was in flight.
C14_Witness ==
    /\ tpc = "idle"
    /\ ~loading
    /\ transaction = "tx"
    /\ error = NoValue
    /\ txHash = ""
    /\ network # K_ethereum

====
